---- MODULE Spec2Model ----
(***************************************************************************)
(* The OpenRouter command line tools: list_models.py (catalog report),     *)
(* parallel_query.py / parallel_query_three.py (fan-out comparison) and    *)
(* simple_claude.py (single request), together with openrouter.py, the     *)
(* client wrapper they share.  One run of one tool is one behaviour.       *)
(***************************************************************************)
EXTENDS Integers, Sequences, FiniteSets, TLC

\* ------------------------------------------------------------------ bounds
MaxModels == 2       \* longest MODELS list that is dispatched
MaxElapsed == 2      \* largest elapsed_time a request can measure
MaxCatalog == 2      \* most models in one catalog response

\* ------------------------------------------------------------- vocabulary
None == "None"

Tools == {"list_models", "parallel_query", "parallel_query_three", "simple_claude"}
CompareTools == {"parallel_query", "parallel_query_three"}

\* the list parallel_query_three dispatches
ThreeModels == <<"anthropic/claude-3.7-sonnet", "google/gemini-pro-1.5", "openai/o1">>

\* identifiers a model list is built from
ModelIds == {ThreeModels[k] : k \in 1..3}

\* The lists parallel_query may be given as MODELS: non-empty, possibly with
\* repeated identifiers.  The code treats all identifiers alike, so lists are
\* taken up to renaming: a position holds an identifier used before it or the
\* first one not used yet.
ModelLists ==
    {ms \in UNION {[1..n -> ModelIds] : n \in 1..MaxModels} :
        \A k \in 1..Len(ms) :
            \E j \in 1..3 :
                /\ ms[k] = ThreeModels[j]
                /\ j <= 1 + Cardinality({ms[i] : i \in 1..(k - 1)})}

\* what the user can type at the prompt: nothing, whitespace only, or text
\* with whitespace around it
Prompts == {<<>>, <<" ">>, <<" ", " ">>, <<" ", "x", " ">>}

\* datetime.now().strftime("%Y%m%d_%H%M%S") at the time of the run
Timestamp == "20250101_120000"

\* the ways one chat-completion call can end: the completion arrives ("ok"); the
\* call itself raises (connection, authentication or provider-side error, all
\* subclasses of the client library's APIError); or a completion arrives that
\* lacks the fields read from it, so that reading them raises TypeError
Failures == {"APIError", "TypeError"}
Outcomes == {"ok"} \cup Failures

\* the environment: each variable is unset (None) or holds a key
Environments == [OPENROUTER_API_KEY : {None, "sk-or"}, OPENAI_API_KEY : {None, "sk-oa"}]

\* ---------------------------------------------------------- pure helpers
\* str.strip(): drop leading and trailing whitespace
RECURSIVE lstrip(_)
lstrip(s) == IF s # <<>> /\ Head(s) = " " THEN lstrip(Tail(s)) ELSE s

RECURSIVE rstrip(_)
rstrip(s) == IF s # <<>> /\ s[Len(s)] = " " THEN rstrip(SubSeq(s, 1, Len(s) - 1)) ELSE s

\* a check written as "if not prompt:", without the strip()
strip_missing(s) == s

strip(s) == rstrip(lstrip(s))

Reverse(s) == [i \in 1..Len(s) |-> s[Len(s) + 1 - i]]

\* list.sort(): stable, ascending by keys[i]; returns the order of the indices
RECURSIVE InsertIdx(_, _, _)
InsertIdx(order, i, keys) ==
    IF order = <<>> THEN <<i>>
    ELSE IF keys[order[Len(order)]] <= keys[i] THEN Append(order, i)
    ELSE Append(InsertIdx(SubSeq(order, 1, Len(order) - 1), i, keys), order[Len(order)])

RECURSIVE SortIdx(_, _)
SortIdx(n, keys) == IF n = 0 THEN <<>> ELSE InsertIdx(SortIdx(n - 1, keys), n, keys)

StableSort(s, keys) == LET order == SortIdx(Len(s), keys) IN [k \in 1..Len(s) |-> s[order[k]]]

\* dict.get(key, default)
get(d, key, default) == IF key \in DOMAIN d THEN d[key] ELSE default

\* ------------------------------------------------------------------ state
VARIABLES
    tool,             \* which script is run
    env,              \* environment variables after load_dotenv()
    pc,               \* position of the main thread
    prompt,           \* the prompt read from the user
    models,           \* MODELS / models: the list the comparison tool iterates
    client,           \* api key held by the constructed client, None before
    futures,          \* one future per submitted query_model call
    settled,          \* indices of the futures in the order they finished
    early,            \* futures already finished when as_completed was called
    yielded,          \* futures as_completed has handed to the loop
    results,          \* the list built by query_models_in_parallel
    shown,            \* rows of the metrics table / detail panels, in order
    comparison_file,  \* <<>> or <<record>>: comparison_results_<timestamp>.json
    models_data,      \* parsed catalog response
    models_txt,       \* models.txt
    http,             \* number of HTTP requests issued so far
    console,          \* messages printed to the user
    exit              \* "running", "normal" or "traceback"

vars == <<tool, env, pc, prompt, models, client, futures, settled, early, yielded,
          results, shown, comparison_file, models_data, models_txt, http, console, exit>>

compare_vars == <<futures, settled, early, yielded, results, shown, comparison_file>>
catalog_vars == <<models_data, models_txt>>

\* outcome records how the future's request ended (None while it has not)
NewFuture == [state |-> "unsubmitted", outcome |-> None, exception |-> None, result |-> <<>>]

Init ==
    /\ tool \in Tools
    /\ env \in Environments
    /\ pc = "main"
    /\ prompt = <<>>
    /\ models \in CASE tool = "parallel_query" -> ModelLists
                    [] tool = "parallel_query_three" -> {ThreeModels}
                    [] OTHER -> {<<>>}
    /\ client = None
    /\ futures = [i \in 1..Len(models) |-> NewFuture]
    /\ settled = <<>>
    /\ early = {}
    /\ yielded = {}
    /\ results = <<>>
    /\ shown = <<>>
    /\ comparison_file = <<>>
    /\ models_data = <<>>
    /\ models_txt = [state |-> "untouched", entries |-> <<>>, meta |-> {}]
    /\ http = 0
    /\ console = {}
    /\ exit = "running"

\* --------------------------------------------------------- error handling
\* An exception reaches the top of the running script.  list_models.main and the
\* comparison tools' main catch Exception and print it; simple_claude has no
\* handler, so the interpreter prints a traceback.
Propagate(e) ==
    /\ pc' = "done"
    /\ IF tool = "simple_claude"
       THEN /\ exit' = "traceback"
            /\ console' = console \cup {<<"Traceback", e>>}
       ELSE /\ exit' = "normal"
            /\ console' = console \cup {<<"An error occurred:", e>>}

\* ------------------------------------------------------------ openrouter
\* OpenAI(base_url=..., api_key=os.environ.get("OPENROUTER_API_KEY")): the key the
\* client ends up with.  The wrapper passes None through when the variable is
\* unset; the library then falls back to OPENAI_API_KEY and raises only when that
\* is unset too.
OpenRouterClient ==
    LET api_key == env.OPENROUTER_API_KEY
    IN IF api_key # None THEN api_key ELSE env.OPENAI_API_KEY

\* ------------------------------------------------ comparison tools: worker
\* the model name the provider reports for a requested identifier
ProviderName(model_id) ==
    CASE model_id = "anthropic/claude-3.7-sonnet" -> "anthropic/claude-3-7-sonnet-20250219"
      [] model_id = "google/gemini-pro-1.5" -> "google/gemini-pro-1.5-002"
      [] model_id = "openai/o1" -> "openai/o1-2024-12-17"

\* the dict query_model returns when the completion arrives
SuccessResult(model_id, elapsed) ==
    [model_id |-> model_id,
     model_name |-> ProviderName(model_id),
     response |-> <<"answer of ", model_id>>,
     elapsed_time |-> elapsed,
     finish_reason |-> "stop",
     tokens |-> [prompt |-> 1, completion |-> 2, total |-> 3]]

\* an except branch that builds the result the way the success branch does
ErrorResult_as_success(model_id, e, elapsed) ==
    [model_id |-> model_id,
     model_name |-> ProviderName(model_id),
     response |-> <<"Error: ", e>>,
     elapsed_time |-> elapsed,
     finish_reason |-> "error",
     tokens |-> [prompt |-> 0, completion |-> 0, total |-> 0]]

\* the dict query_model returns from its except branch
ErrorResult(model_id, e, elapsed) ==
    [model_id |-> model_id,
     model_name |-> model_id,
     response |-> <<"Error: ", e>>,
     elapsed_time |-> elapsed,
     finish_reason |-> "error",
     tokens |-> [prompt |-> 0, completion |-> 0, total |-> 0]]

\* a worker that is handed the shared list and appends its own result to it
query_model_shares_results(i) ==
    /\ tool \in CompareTools
    /\ futures[i].state = "pending"
    /\ \E outcome \in Outcomes, elapsed \in 1..MaxElapsed :
          LET result == IF outcome = "ok"
                        THEN SuccessResult(models[i], elapsed)
                        ELSE ErrorResult(models[i], outcome, elapsed)
          IN /\ futures' = [futures EXCEPT ![i] =
                    [state |-> "done", outcome |-> outcome, exception |-> None,
                     result |-> <<result>>]]
             /\ results' = Append(results, result)
    /\ settled' = Append(settled, i)
    /\ http' = http + 1
    /\ UNCHANGED <<tool, env, pc, prompt, models, client, early, yielded, shown,
                   comparison_file, models_data, models_txt, console, exit>>

\* query_model(model_id, prompt, client), run by a pool thread for future i: one
\* chat-completion request; every Exception raised inside the try block (by the
\* call or by reading the completion's fields) is turned into an error result.
query_model(i) ==
    /\ tool \in CompareTools
    /\ futures[i].state = "pending"
    /\ \E outcome \in Outcomes, elapsed \in 1..MaxElapsed :
          futures' = [futures EXCEPT ![i] =
              [state |-> "done",
               outcome |-> outcome,
               exception |-> None,
               result |-> <<IF outcome = "ok"
                            THEN SuccessResult(models[i], elapsed)
                            ELSE ErrorResult(models[i], outcome, elapsed)>>]]
    /\ settled' = Append(settled, i)
    /\ http' = http + 1
    /\ UNCHANGED <<tool, env, pc, prompt, models, client, early, yielded, results, shown,
                   comparison_file, models_data, models_txt, console, exit>>

\* --------------------------------------------- comparison tools: main thread
\* main(): read the prompt; a prompt that is empty after strip() ends the run
main_prompt ==
    /\ tool \in CompareTools
    /\ pc = "main"
    /\ \E p \in Prompts :
          /\ prompt' = p
          /\ IF strip(p) = <<>>
             THEN /\ console' = console \cup {<<"Prompt cannot be empty. Exiting.", None>>}
                  /\ pc' = "done"
                  /\ exit' = "normal"
             ELSE /\ console' = console \cup {<<"Querying models in parallel...", None>>}
                  /\ pc' = "client"
                  /\ exit' = exit
    /\ UNCHANGED <<tool, env, models, client, http>>
    /\ UNCHANGED compare_vars
    /\ UNCHANGED catalog_vars

\* query_models_in_parallel: client = OpenRouterClient(...)
create_client ==
    /\ tool \in CompareTools
    /\ pc = "client"
    /\ IF OpenRouterClient = None
       THEN /\ Propagate("OpenAIError")
            /\ client' = client
       ELSE /\ client' = OpenRouterClient
            /\ pc' = "submit"
            /\ UNCHANGED <<console, exit>>
    /\ UNCHANGED <<tool, env, prompt, models, http>>
    /\ UNCHANGED compare_vars
    /\ UNCHANGED catalog_vars

\* the next list position executor.submit is called for
NextSubmit == CHOOSE i \in 1..Len(models) :
                 /\ futures[i].state = "unsubmitted"
                 /\ \A j \in 1..(i - 1) : futures[j].state # "unsubmitted"

\* one iteration of the dict comprehension: executor.submit(query_model, ...)
submit ==
    /\ pc = "submit"
    /\ futures' = [futures EXCEPT ![NextSubmit].state = "pending"]
    /\ pc' = IF NextSubmit = Len(models) THEN "as_completed" ELSE "submit"
    /\ UNCHANGED <<tool, env, prompt, models, client, settled, early, yielded, results, shown,
                   comparison_file, models_data, models_txt, http, console, exit>>

\* concurrent.futures.as_completed(future_to_model): note which futures are
\* finished already; those are yielded first, from a set
as_completed ==
    /\ pc = "as_completed"
    /\ early' = {i \in 1..Len(models) : futures[i].state = "done"}
    /\ pc' = "collect"
    /\ UNCHANGED <<tool, env, prompt, models, client, futures, settled, yielded, results, shown,
                   comparison_file, models_data, models_txt, http, console, exit>>

\* a loop that polls the futures and takes any finished one it comes across
Yieldable_any_done ==
    {i \in 1..Len(models) : futures[i].state = "done" /\ i \notin yielded}

\* the futures as_completed may yield next: any of the early ones while some is
\* left, afterwards the oldest finished one not yet yielded
Yieldable ==
    IF early \ yielded # {}
    THEN early \ yielded
    ELSE {i \in 1..Len(models) :
             /\ futures[i].state = "done"
             /\ i \notin yielded
             /\ \A k \in 1..Len(settled) :
                   settled[k] = i => \A j \in 1..(k - 1) : settled[j] \in yielded}

\* a loop that keeps only the results of the requests that succeeded
append_result_drop_errors ==
    /\ pc = "collect"
    /\ \E i \in Yieldable :
          /\ yielded' = yielded \cup {i}
          /\ results' = IF futures[i].outcome = "ok"
                        THEN Append(results, futures[i].result[1]) ELSE results
    /\ UNCHANGED <<tool, env, pc, prompt, models, client, futures, settled, early, shown,
                   comparison_file, models_data, models_txt, http, console, exit>>

\* one iteration of the loop: results.append(future.result())
append_result ==
    /\ pc = "collect"
    /\ \E i \in Yieldable :
          /\ yielded' = yielded \cup {i}
          /\ IF futures[i].exception # None
             THEN /\ Propagate(futures[i].exception)
                  /\ results' = results
             ELSE /\ results' = Append(results, futures[i].result[1])
                  /\ UNCHANGED <<pc, console, exit>>
    /\ UNCHANGED <<tool, env, prompt, models, client, futures, settled, early, shown,
                   comparison_file, models_data, models_txt, http>>

\* a return placed inside the loop, with a pool that is not joined
return_results_first_completed ==
    /\ pc = "collect"
    /\ yielded # {}
    /\ pc' = "display"
    /\ UNCHANGED <<tool, env, prompt, models, client, futures, settled, early, yielded, results,
                   shown, comparison_file, models_data, models_txt, http, console, exit>>

\* the loop is exhausted, the with block joins the pool, results is returned
return_results ==
    /\ pc = "collect"
    /\ yielded = 1..Len(models)
    /\ \A i \in 1..Len(models) : futures[i].state = "done"
    /\ pc' = "display"
    /\ UNCHANGED <<tool, env, prompt, models, client, futures, settled, early, yielded, results,
                   shown, comparison_file, models_data, models_txt, http, console, exit>>

\* a sort with reverse=True: slowest first
sort_results_descending(rs) == StableSort(rs, [k \in 1..Len(rs) |-> 0 - rs[k].elapsed_time])

\* results.sort(key=lambda x: x["elapsed_time"])
sort_results(rs) == StableSort(rs, [k \in 1..Len(rs) |-> rs[k].elapsed_time])

\* display_results(results, prompt): sort in place, print the table and the
\* panels, then dump the record to comparison_results_<timestamp>.json
display_results ==
    /\ pc = "display"
    /\ LET sorted == sort_results(results)
       IN /\ results' = sorted
          /\ shown' = sorted
          /\ comparison_file' = <<[prompt |-> prompt, timestamp |-> Timestamp,
                                    results |-> sorted]>>
    /\ console' = console \cup {<<"Results saved to:", None>>}
    /\ pc' = "done"
    /\ exit' = "normal"
    /\ UNCHANGED <<tool, env, prompt, models, client, futures, settled, early, yielded,
                   models_data, models_txt, http>>

\* ------------------------------------------------------------ list_models
\* pricing values as the provider sends them: strings, numeric or not
RateStrings == {"0", "1", "free"}

\* float(value) for the strings above; a string outside its domain raises ValueError
float == ("0" :> 0) @@ ("1" :> 1)

RateKeys == {"prompt", "completion"}

\* the pricing sub-mappings: any subset of the two rates may be present
PricingDicts == UNION {[keys -> RateStrings] : keys \in SUBSET RateKeys}

\* identifier of the k-th model of a catalog response
IdOf == <<"m1", "m2", "m3", "m4">>

\* the k-th model of a response: an id and, optionally, a pricing mapping
ModelDescriptors(k) ==
    {[id |-> IdOf[k]]} \cup {[id |-> IdOf[k], pricing |-> p] : p \in PricingDicts}

RECURSIVE ModelArrays(_)
ModelArrays(n) ==
    IF n = 0 THEN {<<>>}
    ELSE {Append(ms, m) : ms \in ModelArrays(n - 1), m \in ModelDescriptors(n)}

\* JSON bodies the models endpoint can answer with: a model list, or an error
\* object without one
CatalogBodies ==
    {[data |-> ms] : ms \in UNION {ModelArrays(n) : n \in 0..MaxCatalog}}
        \cup {[error |-> "No auth credentials found"]}

\* what subprocess.run(curl ...) followed by json.loads can produce
CurlOutcomes == {"CalledProcessError", "JSONDecodeError", "json"}

\* get_openrouter_models(), called from main(): check the key, run curl, parse
get_openrouter_models ==
    /\ tool = "list_models"
    /\ pc = "main"
    /\ IF env.OPENROUTER_API_KEY = None
       THEN /\ Propagate("OPENROUTER_API_KEY environment variable not found")
            /\ UNCHANGED <<http, models_data>>
       ELSE /\ http' = http + 1
            /\ \E outcome \in CurlOutcomes :
                  IF outcome = "json"
                  THEN /\ models_data' \in CatalogBodies
                       /\ pc' = "save"
                       /\ UNCHANGED <<console, exit>>
                  ELSE /\ Propagate(outcome)
                       /\ models_data' = models_data
    /\ UNCHANGED <<tool, env, prompt, models, client, models_txt>>
    /\ UNCHANGED compare_vars

\* get_total_price(model)
Priceable(model) ==
    \A key \in DOMAIN get(model, "pricing", <<>>) : model.pricing[key] \in DOMAIN float

get_total_price(model) ==
    LET pricing == get(model, "pricing", <<>>)
        prompt_price == IF "prompt" \in DOMAIN pricing THEN float[pricing.prompt] ELSE 0
        completion_price == IF "completion" \in DOMAIN pricing
                            THEN float[pricing.completion] ELSE 0
    IN prompt_price + completion_price

\* an ascending sort followed by [::-1]: descending, but ties come out reversed
sorted_models_then_reversed(ms) ==
    Reverse(StableSort(ms, [k \in 1..Len(ms) |-> get_total_price(ms[k])]))

\* sorted(models, key=get_total_price, reverse=True): the list is reversed,
\* sorted stably in ascending order and reversed again
sorted_models(ms) ==
    LET rev == Reverse(ms)
    IN Reverse(StableSort(rev, [k \in 1..Len(rev) |-> get_total_price(rev[k])]))

\* save_models_to_file(models_data): open models.txt for writing, write the
\* header, sort, write one block per model and the trailer
save_models_to_file ==
    /\ tool = "list_models"
    /\ pc = "save"
    /\ LET ms == get(models_data, "data", <<>>)
       IN IF \E k \in 1..Len(ms) : ~Priceable(ms[k])
          THEN /\ models_txt' = [state |-> "header", entries |-> <<>>, meta |-> {}]
               /\ Propagate("ValueError")
          ELSE /\ models_txt' =
                     [state |-> "complete",
                      entries |-> [k \in 1..Len(ms) |->
                                     [id |-> sorted_models(ms)[k].id,
                                      total_price |-> get_total_price(sorted_models(ms)[k])]],
                      meta |-> DOMAIN models_data \ {"data"}]
               /\ console' = console \cup {<<"Successfully saved models information to models.txt", None>>}
               /\ pc' = "done"
               /\ exit' = "normal"
    /\ UNCHANGED <<tool, env, prompt, models, client, models_data, http>>
    /\ UNCHANGED compare_vars

\* ---------------------------------------------------------- simple_claude
\* load_dotenv(); client = OpenRouterClient()
simple_client ==
    /\ tool = "simple_claude"
    /\ pc = "main"
    /\ IF OpenRouterClient = None
       THEN /\ Propagate("OpenAIError")
            /\ client' = client
       ELSE /\ client' = OpenRouterClient
            /\ pc' = "request"
            /\ UNCHANGED <<console, exit>>
    /\ UNCHANGED <<tool, env, prompt, models, http>>
    /\ UNCHANGED compare_vars
    /\ UNCHANGED catalog_vars

\* prompt = input(...); the request; print the response
simple_request ==
    /\ tool = "simple_claude"
    /\ pc = "request"
    /\ prompt' \in Prompts
    /\ http' = http + 1
    /\ \E outcome \in Outcomes :
          IF outcome = "ok"
          THEN /\ console' = console \cup {<<"--- Claude 3.7 Sonnet Response ---", None>>}
               /\ pc' = "done"
               /\ exit' = "normal"
          ELSE Propagate(outcome)
    /\ UNCHANGED <<tool, env, models, client>>
    /\ UNCHANGED compare_vars
    /\ UNCHANGED catalog_vars

\* ------------------------------------------------------------ the program
Next ==
    \/ main_prompt
    \/ create_client
    \/ submit
    \/ \E i \in 1..Len(models) : query_model(i)
    \/ as_completed
    \/ append_result
    \/ return_results
    \/ display_results
    \/ get_openrouter_models
    \/ save_models_to_file
    \/ simple_client
    \/ simple_request

Spec == Init /\ [][Next]_vars

\* ------------------------------------------------------------- properties
Done(i) == futures[i].state = "done"

Count(seq, Test(_)) == Cardinality({k \in 1..Len(seq) : Test(seq[k])})

\* C1: when query_models_in_parallel returns, results has exactly one entry per
\* entry of the model list, whatever requests failed, and each identifier has as
\* many results as it has occurrences in the list.
C1_OneResultPerEntry ==
    pc = "display" =>
        /\ Len(results) = Len(models)
        /\ \A id \in ModelIds :
              LET IsId(m) == m = id
                  HasId(r) == r.model_id = id
              IN Count(results, HasId) = Count(models, IsId)

\* a duplicated identifier, one of its requests failed and the other succeeded
C1_Witness ==
    /\ pc = "display"
    /\ Len(models) >= 2
    /\ models[1] = models[2]
    /\ futures[1].outcome \in Failures
    /\ futures[2].outcome = "ok"

\* C2: a request that fails leaves no exception in its future; its result names
\* the requested model as model_id and model_name, has a response starting with
\* "Error: ", finish_reason "error" and token counts 0, 0, 0.
C2_FailureBecomesErrorResult ==
    \A i \in 1..Len(models) :
        (Done(i) /\ futures[i].outcome \in Failures) =>
            /\ futures[i].exception = None
            /\ Len(futures[i].result) = 1
            /\ LET r == futures[i].result[1]
               IN /\ r.model_id = models[i]
                  /\ r.model_name = models[i]
                  /\ Head(r.response) = "Error: "
                  /\ r.finish_reason = "error"
                  /\ r.tokens = [prompt |-> 0, completion |-> 0, total |-> 0]

\* both kinds of failure have happened in one batch
C2_Witness ==
    /\ Len(models) >= 2
    /\ Done(1) /\ futures[1].outcome = "APIError"
    /\ Done(2) /\ futures[2].outcome = "TypeError"

\* C3: from the moment display_results is entered, and whenever a table has been
\* shown or a comparison file written, every dispatched request has settled and
\* its result is in the list: nothing partial is displayed or saved.
C3_NothingPartial ==
    (pc = "display" \/ shown # <<>> \/ comparison_file # <<>>) =>
        /\ \A i \in 1..Len(models) : Done(i)
        /\ Len(results) = Len(models)
        /\ shown # <<>> => Len(shown) = Len(models)
        /\ comparison_file # <<>> => Len(comparison_file[1].results) = Len(models)

\* a batch of several requests, some still running when the loop started, saved
C3_Witness ==
    /\ comparison_file # <<>>
    /\ Len(models) >= 2
    /\ early # 1..Len(models)

NonDecreasing(rs) == \A k \in 1..(Len(rs) - 1) : rs[k].elapsed_time <= rs[k + 1].elapsed_time

\* the results the futures hold, in list order
Collected == [i \in 1..Len(models) |-> futures[i].result[1]]

SameResults(rs, qs) ==
    /\ Len(rs) = Len(qs)
    /\ \A k \in 1..Len(rs) :
          LET Same(r) == r = rs[k]
          IN Count(rs, Same) = Count(qs, Same)

\* C4: once the comparison file is written its results are the sequence shown
\* in the table and panels, ordered by non-decreasing elapsed_time, and they are
\* exactly the results that were collected, field for field.
C4_SavedAsShown ==
    comparison_file # <<>> =>
        /\ comparison_file[1].results = shown
        /\ NonDecreasing(shown)
        /\ SameResults(shown, Collected)

\* the loop collected a slower result before a faster one, and the file has
\* them the other way round
C4_Witness ==
    /\ comparison_file # <<>>
    /\ early = {}
    /\ Len(settled) >= 2
    /\ futures[settled[1]].result[1].elapsed_time > futures[settled[2]].result[1].elapsed_time
    /\ comparison_file[1].results[1] = futures[settled[2]].result[1]

\* empty, or nothing but whitespace
IsBlank(p) == \A k \in 1..Len(p) : p[k] = " "

\* C5: in the comparison tools, once a prompt that is empty (or blank) has been
\* read, the run is over with the rejection message, and no client was built,
\* no request submitted, no HTTP request made and no comparison file written.
C5_EmptyPromptRejected ==
    (tool \in CompareTools /\ pc # "main" /\ IsBlank(prompt)) =>
        /\ pc = "done"
        /\ exit = "normal"
        /\ <<"Prompt cannot be empty. Exiting.", None>> \in console
        /\ client = None
        /\ \A i \in 1..Len(models) : futures[i].state = "unsubmitted"
        /\ http = 0
        /\ comparison_file = <<>>

\* the empty prompt was typed and rejected
C5_Witness ==
    /\ tool \in CompareTools
    /\ pc = "done"
    /\ prompt = <<>>
    /\ <<"Prompt cannot be empty. Exiting.", None>> \in console

\* C6: on a run where OPENROUTER_API_KEY is unset no HTTP request is ever
\* issued, by any of the tools.
C6_NoKeyNoRequest ==
    env.OPENROUTER_API_KEY = None => http = 0

\* C7: when a run is over, models.txt is either untouched or the complete
\* report, and a comparison file, if there is one, holds the complete record.
C7_ArtifactWholeOrAbsent ==
    pc = "done" =>
        /\ models_txt.state \in {"untouched", "complete"}
        /\ comparison_file # <<>> => Len(comparison_file[1].results) = Len(models)

\* C8: every run ends normally: whatever failed, no exception leaves the entry
\* point and no traceback is printed.
C8_NoTraceback ==
    pc = "done" =>
        /\ exit = "normal"
        /\ \A line \in console : line[1] # "Traceback"

\* the catalog fetch got a JSON error object from the provider
ProviderErrorBody == "error" \in DOMAIN models_data

\* C9: a catalog run whose fetch met a transport failure or a provider error
\* response ends with the error reported and models.txt not written.
C9_FetchErrorIsFatal ==
    (/\ tool = "list_models"
     /\ pc = "done"
     /\ (ProviderErrorBody \/ <<"An error occurred:", "CalledProcessError">> \in console)) =>
        /\ models_txt.state = "untouched"
        /\ \E line \in console : line[1] = "An error occurred:"

\* numeric value of a rate of a model, 0 when the rate is missing
Rate(model, key) ==
    IF "pricing" \in DOMAIN model /\ key \in DOMAIN model.pricing
    THEN float[model.pricing[key]] ELSE 0

TotalPrice(model) == Rate(model, "prompt") + Rate(model, "completion")

\* the provider-supplied list, and the place of an identifier in it
Supplied == get(models_data, "data", <<>>)
Position(id) == CHOOSE k \in 1..Len(Supplied) : Supplied[k].id = id

\* C10: the report lists every supplied model exactly once, with total price =
\* prompt rate + completion rate (a missing rate counts 0), in descending order
\* of total price, models of equal total price in the order they were supplied.
C10_DescendingStable ==
    models_txt.state = "complete" =>
        LET entries == models_txt.entries
        IN /\ Len(entries) = Len(Supplied)
           /\ \A j \in 1..Len(Supplied) :
                 Cardinality({k \in 1..Len(entries) : entries[k].id = Supplied[j].id}) = 1
           /\ \A k \in 1..Len(entries) :
                 entries[k].total_price = TotalPrice(Supplied[Position(entries[k].id)])
           /\ \A k, l \in 1..Len(entries) :
                 k < l =>
                    /\ entries[k].total_price >= entries[l].total_price
                    /\ entries[k].total_price = entries[l].total_price =>
                          Position(entries[k].id) < Position(entries[l].id)

\* a report on two models of equal, non-zero total price, one of which has no
\* prompt rate
C10_Witness ==
    /\ models_txt.state = "complete"
    /\ Len(Supplied) >= 2
    /\ "pricing" \in DOMAIN Supplied[1]
    /\ "prompt" \notin DOMAIN Supplied[1].pricing
    /\ TotalPrice(Supplied[1]) = 1
    /\ TotalPrice(Supplied[2]) = 1

\* future j finished before future i did
SettledBefore(j, i) ==
    \E a, b \in 1..Len(settled) : a < b /\ settled[a] = j /\ settled[b] = i

\* the futures whose results the loop appends in this step (results grows by
\* exactly their results, at the end of the list)
Appended == yielded' \ yielded

\* C11: results are appended in settlement order: whenever the loop appends the
\* result of a request, the result of every request that settled before it is in
\* the list already, hence at an earlier index.
C11_SettlementOrder ==
    [][\A i \in Appended :
          \A j \in 1..Len(models) : SettledBefore(j, i) => j \in yielded]_vars

\* C11, amended: the same for every request that had not settled yet when the
\* as_completed loop began; the requests settled by then come first, in no
\* particular order among themselves.
C11_SettlementOrderAfterLoopStart ==
    [][\A i \in Appended :
          i \notin early =>
             \A j \in 1..Len(models) : SettledBefore(j, i) => j \in yielded]_vars

\* the request submitted later settled first, the other one settled after the
\* loop began, and the list has them in settlement order, not request order
C11_Witness ==
    /\ pc = "display"
    /\ Len(settled) >= 2
    /\ settled[1] > settled[2]
    /\ settled[2] \notin early
    /\ results[1] = futures[settled[1]].result[1]
    /\ results[2] = futures[settled[2]].result[1]
    /\ results[1] # results[2]

\* C12: under every interleaving the returned list is a rearrangement of the
\* requests: it holds exactly the results the futures hold, each carrying the
\* identifier it was requested for, so the model_id fields are the requested
\* identifiers, each as often as requested; and the list is changed only by the
\* main thread, never in a step in which a worker finishes.
C12_Rearrangement ==
    /\ [](pc = "display" =>
            /\ SameResults(results, Collected)
            /\ \A i \in 1..Len(models) : Collected[i].model_id = models[i]
            /\ \A k \in 1..Len(results) :
                  LET SameId(m) == m = results[k].model_id
                      HasSameId(r) == SameId(r.model_id)
                  IN Count(results, HasSameId) = Count(models, SameId))
    /\ [][results' # results =>
            /\ pc \in {"collect", "display"}
            /\ futures' = futures
            /\ settled' = settled]_vars

\* the list came back in another order than the requests, the first result
\* belonging to a model other than the first one requested
C12_Witness ==
    /\ pc = "display"
    /\ Len(models) >= 2
    /\ settled[1] # 1
    /\ results[1].model_id # models[1]
    /\ results[Len(results)].model_id = models[1]

====
